---- MODULE Spec2Model ----
(***************************************************************************)
(* Model of the seed / factory / CRUD-test workflow of the repository:     *)
(*   prisma/seed.ts        the Seeder (main, .then, .catch)                *)
(*   factories/index.ts    categoryFactory                                 *)
(*   __tests__/crud.test   the five Jest scenarios                         *)
(* The data store is the User and Category tables of schema.prisma         *)
(* (id String @id @default(uuid())), reached through the Prisma client.    *)
(***************************************************************************)
EXTENDS Naturals, Integers, Sequences, FiniteSets, TLC

----------------------------------------------------------------------------
(* Bounds of the model *)

\* largest number of rows a table holds before a run
MaxInitialRows == 1
\* identifiers the uuid generator can still draw once every insertion of a
\* run has been given one
SpareIds == 1
\* largest number of writes another process makes while the scenarios run
MaxExternalOps == 1

(* Program constants *)

\* seed.ts: const fakerRounds = 10
fakerRounds == 10
\* crud.test: const numberOfCategoriesToGenerate = 5
numberOfCategoriesToGenerate == 5
\* seed.ts: process.exit(1) in the .catch handler
CatchExitCode == 1
\* exit status of a Node process whose event loop drains normally
NormalExitCode == 0
\* exit status of a Node process that dies of an unhandled rejection
\* (Node 15 and later, where --unhandled-rejections=throw is the default)
UnhandledRejectionExitCode == 1

----------------------------------------------------------------------------
(* Data *)

\* the identifier space of uuid() for a run that makes n insertions: big
\* enough that the generator is never forced into a collision
IdPool(n) == 1 .. (MaxInitialRows + n + SpareIds)

\* faker.person.firstName()
FirstNames == {"Ada"}
\* faker.person.fullName()
FullNames == {"Ada Lovelace", "Alan Turing"}
\* faker.internet.email()
Emails == {"ada@example.com"}
\* faker.lorem.word()
Words == {"lorem", "ipsum"}

\* seed.ts fakerUser(): { name: firstName(), email: email() }
fakerUser == [name : FirstNames, email : Emails]

\* crud.test fakerUser() / userData: { name: fullName(), email: email() }
testUserData == [name : FullNames, email : Emails]

\* factories: categoryData = { name: faker.lorem.word() }
categoryData == [name : Words]

\* the primary keys present in a table
IdsOf(table) == {r.id : r \in table}

\* identifiers a create can be given: @id forbids one already present
FreshIds(table, pool) == pool \ IdsOf(table)

\* model User: the row the store builds for user.create({data})
UserRow(id, data) == [id |-> id, name |-> data.name, email |-> data.email]

\* model Category: the row the store builds for category.create({data})
CategoryRow(id, data) == [id |-> id, name |-> data.name]

\* prisma.<model>.create: the table afterwards holds the new row
Insert(table, row) == table \cup {row}

\* prisma.<model>.findUnique({where: {id}}): the row, or null (the empty set)
FindUnique(table, id) == {r \in table : r.id = id}

\* prisma.<model>.delete({where: {id}}): the table without that row
Delete(table, id) == {r \in table : r.id # id}

\* the User tables a run can start from: rows 1..n, seeded or left by tests
InitialUserTables ==
    UNION { { {UserRow(k, f[k]) : k \in 1 .. n}
              : f \in [1 .. n -> fakerUser \cup testUserData] }
            : n \in 0 .. MaxInitialRows }

\* the Category tables a run can start from: rows 1..n left by the factory
InitialCategoryTables ==
    UNION { { {CategoryRow(k, f[k]) : k \in 1 .. n}
              : f \in [1 .. n -> categoryData] }
            : n \in 0 .. MaxInitialRows }

----------------------------------------------------------------------------
VARIABLES
    users,        \* the User table
    users0,       \* the User table when the run started
    seedPc,       \* where the Seeder is
    i,            \* seed.ts loop counter
    inflight,     \* user.create requests sent and not yet answered
    arrivals,     \* iteration numbers of the insertions, in the order the store applied them
    issued,       \* number of user.create requests issued
    failedAt,     \* 0, or N when the Nth insertion failed
    disconnects,  \* number of db.$disconnect() requests
    exitCode,     \* exit status of the process, -1 while it runs
    trace,        \* what the Seeder did, in order
    categories,        \* the Category table
    categories0,       \* the Category table when the factory test started
    facPc,             \* where the factory test is
    j,                 \* crud.test loop counter of the factory test
    catInflight,       \* category.create requests sent and not yet answered
    catIssued,         \* number of category.create requests issued
    calls,             \* number of categoryFactory() calls made
    catAtCall,         \* the Category table when categoryFactory was last called
    createdCategories, \* crud.test: const createdCategories = []
    testPc,       \* the scenario being run and its position, "idle" between scenarios
    remaining,    \* scenarios not run yet
    createdUser,  \* crud.test createdUser of the running scenario (a set: empty = unset)
    found,        \* crud.test findCreatedUserInDb / foundUser (a set: empty = null)
    seen,         \* crud.test users of the read-all scenario
    sent,         \* userData the running scenario passed to create
    results,      \* outcome of each scenario
    thrown,       \* the error each scenario died of, "" if none
    extOps,       \* number of writes another process has made on the store
    extDuring,    \* scenarios that had such a write land after their create
    interfered    \* scenarios whose created row such a write updated or deleted

seedVars == <<users, users0, seedPc, i, inflight, arrivals, issued, failedAt,
              disconnects, exitCode, trace>>

seedVars_noUsers == <<seedPc, i, inflight, arrivals, issued, failedAt,
                      disconnects, exitCode, trace>>

factoryVars == <<categories, categories0, facPc, j, catInflight, catIssued,
                 calls, catAtCall, createdCategories>>

crudVars == <<testPc, remaining, createdUser, found, seen, sent, results, thrown>>

extVars == <<extOps, extDuring, interfered>>

vars == <<seedVars, factoryVars, crudVars, extVars>>

----------------------------------------------------------------------------
(* The Seeder: prisma/seed.ts *)

SeedInit ==
    /\ users \in InitialUserTables
    /\ users0 = users
    /\ seedPc = "loop"
    /\ i = 0
    /\ inflight = {}
    /\ arrivals = <<>>
    /\ issued = 0
    /\ failedAt = 0
    /\ disconnects = 0
    /\ exitCode = -1
    /\ trace = <<>>

\* (variant: the loop test written with <=)
LoopContinuesInclusive(n) == n <= fakerRounds

\* for (let i = 0; i < fakerRounds; i++)
LoopContinues(n) == n < fakerRounds

\* (variant: the create is not awaited, the loop goes on at once)
CreateNotAwaited(n) == [pc |-> "loop", i |-> n + 1]

\* `await db.user.create(...)`: main is suspended on the request of
\* iteration n and the counter is not advanced before the reply
AwaitCreate(n) == [pc |-> "awaitCreate", i |-> n]

\* the reply resolved the awaited promise: i++ and back to the loop test
ResumeAfterCreate(n) == [pc |-> "loop", i |-> n + 1]

\* (variant: the try/catch sits inside the loop body, the loop goes on)
CatchAndContinue(n) == [pc |-> "loop", i |-> n + 1]

\* (variant: the catch block ends the process itself)
CatchAndExit(n) == [pc |-> "exited", i |-> n]

\* catch (error) { console.log(error) }: the loop is left, main resolves
CatchInLoop(n) == [pc |-> "resolved", i |-> n]

\* (variant: a .then callback that releases nothing)
ThenWithoutDisconnect(d) == [pc |-> "exited", disconnects |-> d]

\* .then(async () => { await db.$disconnect() })
ThenCallback(d) == [pc |-> "awaitDisconnect", disconnects |-> d + 1]

\* (variant: the handler of the README's seed script, which exits before
\* the release: .catch(e => { console.error(e); process.exit(1) }))
CatchHandlerExitFirst(d) ==
    [pc |-> "exited", disconnects |-> d, exit |-> CatchExitCode,
     events |-> <<"error_log", "process_exit">>]

\* .catch(async (e) => { console.error(e); await db.$disconnect(); ... }):
\* the handler logs, asks for the release and waits for the answer
CatchHandler(d) ==
    [pc |-> "catchAwaitDisconnect", disconnects |-> d + 1, exit |-> -1,
     events |-> <<"error_log", "disconnect_req">>]

\* loop body: build fakerUser() and send the create request
SeedIssueCreate ==
    /\ seedPc = "loop"
    /\ LoopContinues(i)
    /\ \E d \in fakerUser :
          inflight' = inflight \cup {[iter |-> i, data |-> d]}
    /\ seedPc' = AwaitCreate(i).pc
    /\ i' = AwaitCreate(i).i
    /\ issued' = issued + 1
    /\ trace' = Append(trace, "create_req")
    /\ UNCHANGED <<users, users0, arrivals, failedAt, disconnects, exitCode>>
    /\ UNCHANGED <<factoryVars, crudVars, extVars>>

\* the store applies a create and answers with the row
SeedCreateOk ==
    /\ \E r \in inflight : \E id \in FreshIds(users, IdPool(fakerRounds)) :
          /\ users' = Insert(users, UserRow(id, r.data))
          /\ inflight' = inflight \ {r}
          /\ arrivals' = Append(arrivals, r.iter)
          /\ IF seedPc = "awaitCreate" /\ r.iter = i
                THEN /\ seedPc' = ResumeAfterCreate(i).pc
                     /\ i' = ResumeAfterCreate(i).i
                ELSE UNCHANGED <<seedPc, i>>
    /\ trace' = Append(trace, "create_ok")
    /\ UNCHANGED <<users0, issued, failedAt, disconnects, exitCode>>
    /\ UNCHANGED <<factoryVars, crudVars, extVars>>

\* the store rejects a create (constraint violation, store unreachable):
\* nothing is written; the rejection is thrown at the await and caught
SeedCreateFail ==
    /\ \E r \in inflight :
          /\ inflight' = inflight \ {r}
          /\ IF seedPc = "awaitCreate" /\ r.iter = i
                THEN /\ seedPc' = CatchInLoop(i).pc
                     /\ i' = CatchInLoop(i).i
                     /\ failedAt' = IF failedAt = 0 THEN r.iter + 1 ELSE failedAt
                     /\ trace' = trace \o <<"create_fail", "log">>
                ELSE /\ UNCHANGED <<seedPc, i>>
                     /\ failedAt' = IF failedAt = 0 THEN r.iter + 1 ELSE failedAt
                     /\ trace' = Append(trace, "create_fail")
    /\ UNCHANGED <<users, users0, arrivals, issued, disconnects, exitCode>>
    /\ UNCHANGED <<factoryVars, crudVars, extVars>>

\* the loop test fails after the last round: main resolves
SeedLoopExit ==
    /\ seedPc = "loop"
    /\ ~LoopContinues(i)
    /\ seedPc' = "resolved"
    /\ UNCHANGED <<users, users0, i, inflight, arrivals, issued, failedAt,
                   disconnects, exitCode, trace>>
    /\ UNCHANGED <<factoryVars, crudVars, extVars>>

\* main() resolved: the .then callback asks for the connection release
SeedThen ==
    /\ seedPc = "resolved"
    /\ seedPc' = ThenCallback(disconnects).pc
    /\ disconnects' = ThenCallback(disconnects).disconnects
    /\ trace' = IF disconnects' > disconnects
                   THEN Append(trace, "disconnect_req") ELSE trace
    /\ exitCode' = IF seedPc' = "exited" THEN NormalExitCode ELSE exitCode
    /\ UNCHANGED <<users, users0, i, inflight, arrivals, issued, failedAt>>
    /\ UNCHANGED <<factoryVars, crudVars, extVars>>

\* the release succeeded: nothing is left to run, the process ends normally
SeedDisconnectOk ==
    /\ seedPc = "awaitDisconnect"
    /\ seedPc' = "exited"
    /\ exitCode' = NormalExitCode
    /\ trace' = Append(trace, "disconnect_ok")
    /\ UNCHANGED <<users, users0, i, inflight, arrivals, issued, failedAt,
                   disconnects>>
    /\ UNCHANGED <<factoryVars, crudVars, extVars>>

\* the release failed: the .then promise rejects and the .catch handler
\* runs console.error(e) and asks for the release again
SeedDisconnectFail ==
    /\ seedPc = "awaitDisconnect"
    /\ seedPc' = CatchHandler(disconnects).pc
    /\ disconnects' = CatchHandler(disconnects).disconnects
    /\ exitCode' = CatchHandler(disconnects).exit
    /\ trace' = trace \o <<"disconnect_fail">> \o CatchHandler(disconnects).events
    /\ UNCHANGED <<users, users0, i, inflight, arrivals, issued, failedAt>>
    /\ UNCHANGED <<factoryVars, crudVars, extVars>>

\* .catch handler, release answered: process.exit(1)
SeedCatchExit ==
    /\ seedPc = "catchAwaitDisconnect"
    /\ seedPc' = "exited"
    /\ exitCode' = CatchExitCode
    /\ trace' = trace \o <<"disconnect_ok", "process_exit">>
    /\ UNCHANGED <<users, users0, i, inflight, arrivals, issued, failedAt,
                   disconnects>>
    /\ UNCHANGED <<factoryVars, crudVars, extVars>>

\* .catch handler, release failed again: the handler's own promise rejects
\* with nobody listening and Node ends the process
SeedCatchReject ==
    /\ seedPc = "catchAwaitDisconnect"
    /\ seedPc' = "exited"
    /\ exitCode' = UnhandledRejectionExitCode
    /\ trace' = trace \o <<"disconnect_fail", "unhandled_rejection">>
    /\ UNCHANGED <<users, users0, i, inflight, arrivals, issued, failedAt,
                   disconnects>>
    /\ UNCHANGED <<factoryVars, crudVars, extVars>>

SeedNext ==
    \/ SeedIssueCreate
    \/ SeedCreateOk
    \/ SeedCreateFail
    \/ SeedLoopExit
    \/ SeedThen
    \/ SeedDisconnectOk
    \/ SeedDisconnectFail
    \/ SeedCatchExit
    \/ SeedCatchReject

----------------------------------------------------------------------------
(* The Factory and its volume scenario: factories/index.ts, crud.test *)

FactoryInit ==
    /\ categories \in InitialCategoryTables
    /\ categories0 = categories
    /\ facPc = "loop"
    /\ j = 0
    /\ catInflight = {}
    /\ catIssued = 0
    /\ calls = 0
    /\ catAtCall = categories
    /\ createdCategories = <<>>

\* for (let i = 0; i < numberOfCategoriesToGenerate; i++)
TestLoopContinues(n) == n < numberOfCategoriesToGenerate

\* (variant: the factory returns the data it sent, which has no identifier)
FactoryEcho(data, row) == [id |-> 0, name |-> data.name]

\* categoryFactory: `return category`, the row the create resolved with
FactoryReturn(data, row) == row

\* (variant: the factory catches the rejection and sends the create again)
FactoryRetry(r, n) == [pc |-> "awaitCreate", inflight |-> {r}, issued |-> n + 1]

\* categoryFactory has no try/catch: a rejected create rejects the call,
\* and the scenario, which has none either, ends as failed
FactoryOnReject(r, n) == [pc |-> "failed", inflight |-> {}, issued |-> n]

\* (variant: the result is assigned instead of pushed)
CollectOverwrite(list, c) == <<c>>

\* createdCategories.push(createdCategory)
Collect(list, c) == Append(list, c)

\* the scenario calls categoryFactory(), which draws a name and sends one
\* category.create request
FactoryCall ==
    /\ facPc = "loop"
    /\ TestLoopContinues(j)
    /\ \E d \in categoryData : catInflight' = catInflight \cup {[data |-> d]}
    /\ catIssued' = catIssued + 1
    /\ calls' = calls + 1
    /\ catAtCall' = categories
    /\ facPc' = "awaitCreate"
    /\ UNCHANGED <<categories, categories0, j, createdCategories>>
    /\ UNCHANGED <<seedVars, crudVars, extVars>>

\* the store applies the create and answers with the row; the factory
\* returns, the scenario collects the result and goes round the loop
FactoryCreateOk ==
    /\ facPc = "awaitCreate"
    /\ \E r \in catInflight :
       \E id \in FreshIds(categories, IdPool(numberOfCategoriesToGenerate)) :
          LET row == CategoryRow(id, r.data) IN
          /\ categories' = Insert(categories, row)
          /\ catInflight' = catInflight \ {r}
          /\ createdCategories' =
                Collect(createdCategories, FactoryReturn(r.data, row))
    /\ j' = j + 1
    /\ facPc' = "loop"
    /\ UNCHANGED <<categories0, catIssued, calls, catAtCall>>
    /\ UNCHANGED <<seedVars, crudVars, extVars>>

\* the store rejects the create: nothing is written
FactoryCreateFail ==
    /\ facPc = "awaitCreate"
    /\ \E r \in catInflight :
          LET o == FactoryOnReject(r, catIssued) IN
          /\ catInflight' = o.inflight
          /\ catIssued' = o.issued
          /\ facPc' = o.pc
    /\ UNCHANGED <<categories, categories0, j, calls, catAtCall,
                   createdCategories>>
    /\ UNCHANGED <<seedVars, crudVars, extVars>>

\* expect(createdCategories).toHaveLength(numberOfCategoriesToGenerate)
FactoryExpect ==
    /\ facPc = "loop"
    /\ ~TestLoopContinues(j)
    /\ facPc' = IF Len(createdCategories) = numberOfCategoriesToGenerate
                   THEN "passed" ELSE "assertFailed"
    /\ UNCHANGED <<categories, categories0, j, catInflight, catIssued, calls,
                   catAtCall, createdCategories>>
    /\ UNCHANGED <<seedVars, crudVars, extVars>>

FactoryNext ==
    \/ FactoryCall
    \/ FactoryCreateOk
    \/ FactoryCreateFail
    \/ FactoryExpect

----------------------------------------------------------------------------
(* The User scenarios of crud.test *)

\* "should create new user", "should get all users",
\* "should update user information", "should delete a specific user"
Scenarios == {"create", "getAll", "update", "delete"}

\* the first store call of a scenario
FirstStep(t) == IF t = "getAll" THEN "findMany" ELSE "insert"

\* what follows the create call of a scenario
AfterInsert(t) ==
    CASE t = "create" -> "find"
      [] t = "update" -> "expect"
      [] t = "delete" -> "delete"

\* the scenarios that insert a User
Inserting == {t \in Scenarios : FirstStep(t) = "insert"}

\* the row held by createdUser
TheRow(maybe) == CHOOSE r \in maybe : TRUE

\* prisma.user.findFirst({ where: { name } }): the oldest row of that name
FindFirstByName(table, u) ==
    LET m == {r \in table : r.name = u.name}
    IN  IF m = {} THEN {} ELSE {CHOOSE r \in m : \A q \in m : r.id <= q.id}

\* (variant: the create scenario looks the user up by name)
CreateLookupByName(table, u) == FindFirstByName(table, u)

\* create scenario: findUnique({ where: { id: createdUser.id } })
CreateLookup(table, u) == FindUnique(table, u.id)

\* delete scenario: delete({ where: { id: createdUser.id } })
DeleteWhere(u) == u.id

\* (variant: the delete scenario looks the user up by name)
DeleteLookupByName(table, u) == FindFirstByName(table, u)

\* delete scenario: findUnique({ where: { id: createdUser.id } })
DeleteLookup(table, u) == FindUnique(table, u.id)

\* expect(createdUser).toEqual(findCreatedUserInDb)
ExpectCreate(created, fetched) == created = fetched

\* expect(users.length).toBeGreaterThan(0)
ExpectGetAll(rows) == Cardinality(rows) > 0

\* expect(createdUser.email).toBe(userData.email); ...name...
ExpectUpdate(created, data) ==
    /\ TheRow(created).email = TheRow(data).email
    /\ TheRow(created).name = TheRow(data).name

\* expect(foundUser).toBeNull()
ExpectDelete(fetched) == fetched = {}

\* the test file is loaded and the runner is given the scenarios sel
CrudStart(sel) ==
    /\ users \in InitialUserTables
    /\ users0 = users
    /\ testPc = <<"none", "idle">>
    /\ remaining = sel
    /\ createdUser = {}
    /\ found = {}
    /\ seen = {}
    /\ sent = {}
    /\ results = [t \in Scenarios |-> "notrun"]
    /\ thrown = [t \in Scenarios |-> ""]

CrudInit == CrudStart(Scenarios)

\* the runner starts a scenario; its locals are fresh. Jest runs the
\* scenarios of a file one at a time; which ones and in which order is left
\* open here (test.only, -t, --randomize)
TestStart ==
    /\ testPc[2] = "idle"
    /\ \E t \in remaining :
          /\ remaining' = remaining \ {t}
          /\ testPc' = <<t, FirstStep(t)>>
    /\ createdUser' = {}
    /\ found' = {}
    /\ seen' = {}
    /\ sent' = {}
    /\ UNCHANGED <<users, users0, results, thrown>>
    /\ UNCHANGED <<seedVars_noUsers, factoryVars, extVars>>

\* const createdUser = await prisma.user.create({ data })
TestInsert ==
    /\ testPc[2] = "insert"
    /\ \E d \in testUserData :
       \E id \in FreshIds(users, IdPool(Cardinality(Inserting))) :
          /\ users' = Insert(users, UserRow(id, d))
          /\ createdUser' = {UserRow(id, d)}
          /\ sent' = {d}
    /\ testPc' = <<testPc[1], AfterInsert(testPc[1])>>
    /\ UNCHANGED <<users0, remaining, found, seen, results, thrown>>
    /\ UNCHANGED <<seedVars_noUsers, factoryVars, extVars>>

\* await prisma.user.findUnique({ where })
TestFind ==
    /\ testPc[2] = "find"
    /\ found' = IF testPc[1] = "create"
                   THEN CreateLookup(users, TheRow(createdUser))
                   ELSE DeleteLookup(users, TheRow(createdUser))
    /\ testPc' = <<testPc[1], "expect">>
    /\ UNCHANGED <<users, users0, remaining, createdUser, seen, sent, results,
                   thrown>>
    /\ UNCHANGED <<seedVars_noUsers, factoryVars, extVars>>

\* await prisma.user.delete({ where }): rejects when no row has the id
TestDelete ==
    /\ testPc[2] = "delete"
    /\ LET id == DeleteWhere(TheRow(createdUser)) IN
          IF id \in IdsOf(users)
             THEN /\ users' = Delete(users, id)
                  /\ testPc' = <<testPc[1], "find">>
                  /\ UNCHANGED <<results, thrown>>
             ELSE /\ thrown' = [thrown EXCEPT ![testPc[1]] = "notFound"]
                  /\ results' = [results EXCEPT ![testPc[1]] = "error"]
                  /\ testPc' = <<"none", "idle">>
                  /\ UNCHANGED users
    /\ UNCHANGED <<users0, remaining, createdUser, found, seen, sent>>
    /\ UNCHANGED <<seedVars_noUsers, factoryVars, extVars>>

\* const users = await prisma.user.findMany()
TestFindMany ==
    /\ testPc[2] = "findMany"
    /\ seen' = users
    /\ testPc' = <<testPc[1], "expect">>
    /\ UNCHANGED <<users, users0, remaining, createdUser, found, sent, results,
                   thrown>>
    /\ UNCHANGED <<seedVars_noUsers, factoryVars, extVars>>

\* the expect(...) that ends the scenario
TestExpect ==
    /\ testPc[2] = "expect"
    /\ LET ok == CASE testPc[1] = "create" -> ExpectCreate(createdUser, found)
                   [] testPc[1] = "getAll" -> ExpectGetAll(seen)
                   [] testPc[1] = "update" -> ExpectUpdate(createdUser, sent)
                   [] testPc[1] = "delete" -> ExpectDelete(found)
       IN results' = [results EXCEPT ![testPc[1]] = IF ok THEN "pass" ELSE "fail"]
    /\ testPc' = <<"none", "idle">>
    /\ UNCHANGED <<users, users0, remaining, createdUser, found, seen, sent,
                   thrown>>
    /\ UNCHANGED <<seedVars_noUsers, factoryVars, extVars>>

\* a store call is rejected because the store cannot be reached: nothing
\* is written, and the scenario, which catches nothing, ends there
TestStoreFail ==
    /\ testPc[2] \in {"insert", "find", "delete", "findMany"}
    /\ thrown' = [thrown EXCEPT ![testPc[1]] = "connectivity"]
    /\ results' = [results EXCEPT ![testPc[1]] = "error"]
    /\ testPc' = <<"none", "idle">>
    /\ UNCHANGED <<users, users0, remaining, createdUser, found, seen, sent>>
    /\ UNCHANGED <<seedVars_noUsers, factoryVars, extVars>>

CrudNext ==
    \/ TestStart
    \/ TestInsert
    \/ TestFind
    \/ TestDelete
    \/ TestFindMany
    \/ TestExpect
    \/ TestStoreFail

----------------------------------------------------------------------------
(* Another process writing to the same User table while the scenarios run *)

\* the scenarios that are run next to the other process
ExtScenarios == {"create", "delete"}

\* the identifiers uuid() gives to the other process's rows: never one the
\* scenarios are given
ExtIds ==
    IdPool(Cardinality(Inserting) + MaxExternalOps) \ IdPool(Cardinality(Inserting))

\* the scenario that is running and has created its row, if any
Running == IF createdUser # {} THEN {testPc[1]} \cap Scenarios ELSE {}

\* the running scenario, if the row with this identifier is the one it created
Owner(id) == IF id \in IdsOf(createdUser) THEN Running ELSE {}

\* the other process creates a User (another run of the tests)
ExtInsert ==
    /\ testPc[2] # "off"
    /\ extOps < MaxExternalOps
    /\ \E d \in testUserData : \E id \in ExtIds \ IdsOf(users) :
          users' = Insert(users, UserRow(id, d))
    /\ extOps' = extOps + 1
    /\ extDuring' = extDuring \cup Running
    /\ UNCHANGED <<users0, interfered, crudVars, seedVars_noUsers, factoryVars>>

\* the other process overwrites the name and email of some User
ExtUpdate ==
    /\ testPc[2] # "off"
    /\ extOps < MaxExternalOps
    /\ \E r \in users : \E d \in testUserData :
          /\ UserRow(r.id, d) # r
          /\ users' = Insert(Delete(users, r.id), UserRow(r.id, d))
          /\ interfered' = interfered \cup Owner(r.id)
    /\ extOps' = extOps + 1
    /\ extDuring' = extDuring \cup Running
    /\ UNCHANGED <<users0, crudVars, seedVars_noUsers, factoryVars>>

\* the other process deletes some User
ExtDelete ==
    /\ testPc[2] # "off"
    /\ extOps < MaxExternalOps
    /\ \E r \in users :
          /\ users' = Delete(users, r.id)
          /\ interfered' = interfered \cup Owner(r.id)
    /\ extOps' = extOps + 1
    /\ extDuring' = extDuring \cup Running
    /\ UNCHANGED <<users0, crudVars, seedVars_noUsers, factoryVars>>

ExtNext ==
    \/ ExtInsert
    \/ ExtUpdate
    \/ ExtDelete

ExtIdle ==
    /\ extOps = 0
    /\ extDuring = {}
    /\ interfered = {}

----------------------------------------------------------------------------
(* Components that take no part in a specification *)

SeedIdle ==
    /\ seedPc = "idle"
    /\ i = 0
    /\ inflight = {}
    /\ arrivals = <<>>
    /\ issued = 0
    /\ failedAt = 0
    /\ disconnects = 0
    /\ exitCode = -1
    /\ trace = <<>>

UsersIdle ==
    /\ users = {}
    /\ users0 = {}

FactoryIdle ==
    /\ categories = {}
    /\ categories0 = {}
    /\ facPc = "idle"
    /\ j = 0
    /\ catInflight = {}
    /\ catIssued = 0
    /\ calls = 0
    /\ catAtCall = {}
    /\ createdCategories = <<>>

CrudIdle ==
    /\ testPc = <<"none", "off">>
    /\ remaining = {}
    /\ createdUser = {}
    /\ found = {}
    /\ seen = {}
    /\ sent = {}
    /\ results = <<>>
    /\ thrown = <<>>

----------------------------------------------------------------------------
(* Specifications *)

\* a Seeder run
Init == SeedInit /\ FactoryIdle /\ CrudIdle /\ ExtIdle
Next == SeedNext
Spec == Init /\ [][Next]_vars

\* the factory volume scenario
InitFactory == FactoryInit /\ SeedIdle /\ UsersIdle /\ CrudIdle /\ ExtIdle
SpecFactory == InitFactory /\ [][FactoryNext]_vars


\* the User scenarios of the test file
InitCrud == CrudInit /\ SeedIdle /\ FactoryIdle /\ ExtIdle
SpecCrud == InitCrud /\ [][CrudNext]_vars

\* the create and delete scenarios (the runner is given only these two)
\* with another process writing to the table
InitCrudExt == CrudStart(ExtScenarios) /\ SeedIdle /\ FactoryIdle /\ ExtIdle
NextCrudExt ==
    \/ TestStart
    \/ TestInsert
    \/ TestFind
    \/ TestDelete
    \/ TestExpect
    \/ TestStoreFail
    \/ ExtNext
SpecCrudExt == InitCrudExt /\ [][NextCrudExt]_vars

----------------------------------------------------------------------------
(* Properties of the Seeder, checked under Spec *)

\* the event e occurs in the Seeder's trace
Happened(e) == \E k \in DOMAIN trace : trace[k] = e

\* the insertion loop of main has been left
LoopStopped == seedPc \in {"resolved", "awaitDisconnect", "catchAwaitDisconnect", "exited"}

\* C1: a Seeder run in which no insertion fails ends with exactly ten User
\* rows more than the store held when it started, all earlier rows kept,
\* whatever the store held before.
C1_TenNewUsers ==
    (seedPc = "exited" /\ failedAt = 0) =>
        /\ Cardinality(users) = Cardinality(users0) + 10
        /\ users0 \subseteq users

C1_Witness ==
    /\ seedPc = "exited"
    /\ failedAt = 0
    /\ users0 # {}
    /\ Cardinality(users \ users0) = 10

\* C2: once the Nth insertion (1 <= N <= 10) has failed, the failure has
\* been caught and logged, the loop is left, exactly N requests were issued
\* and none is issued afterwards, and the store holds at most N-1 rows more
\* than at the start, up to and including the end of the run.
C2_FailureStopsLoop ==
    failedAt # 0 =>
        /\ failedAt \in 1 .. 10
        /\ LoopStopped
        /\ issued = failedAt
        /\ inflight = {}
        /\ \E k \in DOMAIN trace :
              /\ trace[k] = "create_fail"
              /\ k + 1 \in DOMAIN trace
              /\ trace[k + 1] = "log"
              /\ \A m \in DOMAIN trace : m > k => trace[m] # "create_req"
        /\ ~Happened("error_log") => exitCode \in {-1, 0}
        /\ Cardinality(users) <= Cardinality(users0) + failedAt - 1

C2_Witness ==
    /\ seedPc = "exited"
    /\ failedAt = 4
    /\ issued = 4
    /\ Cardinality(users \ users0) = 3
    /\ Happened("log")

C5_Sequential ==
    /\ Cardinality(inflight) <= 1
    /\ \A r \in inflight : r.iter = Len(arrivals) /\ failedAt = 0
    /\ \A k \in DOMAIN arrivals : arrivals[k] = k - 1

C5_Witness ==
    /\ inflight # {}
    /\ Len(arrivals) = 9
    /\ \A k \in DOMAIN arrivals : arrivals[k] = k - 1

----------------------------------------------------------------------------
(* Properties of the Factory, checked under SpecFactory *)

\* the rows the factory calls have inserted
NewCategories == categories \ categories0

\* C6: every categoryFactory call issues exactly one category.create
\* request, and every record a call returned is the row the store holds
\* under the identifier it assigned for that call: one row per successful
\* call, none of them a row that was there before.
C6_ReturnsStoredRow ==
    /\ catIssued = calls
    /\ \A k \in DOMAIN createdCategories :
          /\ createdCategories[k] \in NewCategories
          /\ FindUnique(categories, createdCategories[k].id) = {createdCategories[k]}
    /\ Cardinality(NewCategories) = Len(createdCategories)

C6_Witness ==
    /\ Len(createdCategories) >= 2
    /\ categories0 # {}
    /\ createdCategories[1] \in categories
    /\ createdCategories[1].name # createdCategories[2].name

\* C7: after K awaited calls that all succeeded (K = 0..5) the scenario has
\* collected K records, the store holds K rows more than before, and the
\* identifiers of the collected records are pairwise distinct; so the
\* assertion on the length (K = 5) never fails.
C7_FiveDistinct ==
    /\ facPc # "assertFailed"
    /\ facPc \in {"loop", "passed"} =>
          /\ Len(createdCategories) = j
          /\ Cardinality(categories) = Cardinality(categories0) + j
          /\ \A a, b \in DOMAIN createdCategories :
                a # b => createdCategories[a].id # createdCategories[b].id
    /\ facPc = "passed" =>
          /\ Len(createdCategories) = 5
          /\ Cardinality(NewCategories) = 5

C7_Witness ==
    /\ facPc = "passed"
    /\ categories0 # {}
    /\ Len(createdCategories) = 5
    /\ Cardinality({createdCategories[k].id : k \in 1 .. 5}) = 5

\* C8: no call ever issues a second request; and when the insertion of a
\* call failed, the failure has reached the caller (the scenario is
\* failed), nothing was collected for that call, no request is outstanding
\* and the Category table is the one the call found.
C8_FailurePropagates ==
    /\ catIssued <= calls
    /\ facPc = "failed" =>
          /\ catIssued = calls
          /\ catInflight = {}
          /\ Len(createdCategories) = calls - 1
          /\ categories = catAtCall
    /\ (facPc \in {"loop", "passed"} /\ calls > 0) =>
          Len(createdCategories) = calls

C8_Witness ==
    /\ facPc = "failed"
    /\ calls = 3
    /\ Len(createdCategories) = 2
    /\ categories = catAtCall

----------------------------------------------------------------------------
(* Properties of the User scenarios, checked under SpecCrud *)

\* C9: in the create scenario, whatever name and email were drawn, the
\* fetch by the identifier the insertion returned yields a record equal in
\* identifier, name and email to the record the insertion returned; the
\* scenario's assertion never fails.
C9_InsertThenFetch ==
    /\ testPc = <<"create", "expect">> =>
          /\ createdUser # {}
          /\ found = createdUser
          /\ \A f \in found : \A c \in createdUser : \A d \in sent :
                f.id = c.id /\ f.name = d.name /\ f.email = d.email
    /\ results["create"] # "fail"

C9_Witness ==
    /\ results["create"] = "pass"
    /\ users0 # {}
    /\ \E r \in users \ users0 : \E q \in users0 : r.name = q.name

\* C10: in the delete scenario the delete of the row just created is never
\* rejected as not found, and the fetch that follows a successful delete
\* answers null: it finds no row, and the scenario's assertion never fails.
C10_DeleteThenFetchNull ==
    /\ testPc = <<"delete", "expect">> =>
          /\ found = {}
          /\ \A c \in createdUser : c.id \notin IdsOf(users)
    /\ thrown["delete"] # "notFound"
    /\ results["delete"] # "fail"

C10_Witness ==
    /\ results["delete"] = "pass"
    /\ users0 # {}
    /\ users0 \subseteq users

\* C11: every User scenario is independent of the others and of what the
\* store held: whichever scenarios ran before it and whatever the User table
\* held at the start (nothing included), a scenario whose store calls all
\* succeeded does not fail its assertion.
C11_ScenariosIndependent ==
    \A t \in Scenarios : results[t] # "fail"

----------------------------------------------------------------------------
(* Exit paths of the Seeder, checked under Spec *)

----------------------------------------------------------------------------
(* The User scenarios next to another writer, checked under SpecCrudExt *)

\* C12 as stated: under every interleaving with the other process's
\* inserts, updates and deletes, the create scenario's equality holds, the
\* delete scenario's delete is not rejected as not found and its fetch
\* answers null.
C12_HoldsUnderEveryInterleaving ==
    /\ results["create"] # "fail"
    /\ results["delete"] # "fail"
    /\ thrown["delete"] # "notFound"

\* C12 amended: the same holds under every interleaving with the other
\* process's inserts and with its updates and deletes of rows other than
\* the row the scenario created; only a scenario whose own row the other
\* process updated or deleted between its calls can fail.
C12_HoldsUnlessOwnRowTouched ==
    /\ results["create"] = "fail" => "create" \in interfered
    /\ results["delete"] = "fail" => "delete" \in interfered
    /\ thrown["delete"] = "notFound" => "delete" \in interfered
    /\ (testPc = <<"create", "expect">> /\ "create" \notin interfered) =>
          (createdUser # {} /\ found = createdUser)
    /\ (testPc = <<"delete", "expect">> /\ "delete" \notin interfered) =>
          found = {}

C12_Witness ==
    /\ results["create"] = "pass"
    /\ results["delete"] = "pass"
    /\ "create" \in extDuring
    /\ interfered = {}
    /\ extOps >= 1
    /\ users0 # {}

====
